---- MODULE Spec2Model ----
\* A model of backup.py (simple-windows-backup-tool): one process run is
\* construction (configuration read), Backup._rotate, the two mirror loops of
\* Backup.backup, the aggregate with Backup._notify, and the exit of __main__.
\* The disk (directories and the rotation-state file) lives across runs.
EXTENDS Integers, Sequences, FiniteSets, TLC

\* ------------------------------------------------------------------ bounds
MaxRuns == 5          \* process runs in one behaviour of Spec
MaxDirs == 2          \* longest source_directories list of SpecOrch
MaxFiles == 1         \* longest source_files list of SpecOrch
StartClock == 1700000030   \* wall clock (epoch seconds) before the first run

\* ------------------------------------------------------- program constants
SecondsPerMinute == 60
SecondsPerDay == 86400
FailureThreshold == 8

\* --------------------------------------------------------------- strings
\* A string is a sequence of one-character strings.
Sep == "\\"
Colon == ":"

StartsWith(s, prefix) ==
    /\ Len(prefix) <= Len(s)
    /\ SubSeq(s, 1, Len(prefix)) = prefix

Replace(s, ch) == SelectSeq(s, LAMBDA c : c # ch)

Ord(c) ==
    CASE c = "0" -> 48 [] c = "1" -> 49 [] c = "2" -> 50 [] c = "3" -> 51
      [] c = "4" -> 52 [] c = "5" -> 53 [] c = "6" -> 54 [] c = "7" -> 55
      [] c = "8" -> 56 [] c = "9" -> 57 [] c = "_" -> 95 [] c = "b" -> 98

\* Python's str ordering: code point by code point, a proper prefix first.
RECURSIVE StrLess(_, _)
StrLess(a, b) ==
    IF a = <<>> THEN b # <<>>
    ELSE IF b = <<>> THEN FALSE
    ELSE IF Ord(Head(a)) # Ord(Head(b)) THEN Ord(Head(a)) < Ord(Head(b))
    ELSE StrLess(Tail(a), Tail(b))

DigitChar(d) == <<"0", "1", "2", "3", "4", "5", "6", "7", "8", "9">>[d + 1]

\* str(n) for n >= 0.
RECURSIVE IntToStr(_)
IntToStr(n) ==
    IF n < 10 THEN <<DigitChar(n)>>
    ELSE Append(IntToStr(n \div 10), DigitChar(n % 10))

RECURSIVE Insert(_, _)
Insert(x, sorted) ==
    IF sorted = <<>> THEN <<x>>
    ELSE IF StrLess(x, Head(sorted)) THEN <<x>> \o sorted
    ELSE <<Head(sorted)>> \o Insert(x, Tail(sorted))

\* sorted(list) of strings.
RECURSIVE Sorted(_)
Sorted(list) ==
    IF list = <<>> THEN <<>>
    ELSE Insert(list[Len(list)], Sorted(SubSeq(list, 1, Len(list) - 1)))

\* ----------------------------------------------------------- source paths
\* ntpath.splitdrive for drive-letter paths.
SplitDrive(p) ==
    IF Len(p) >= 2 /\ p[2] = Colon
    THEN <<SubSeq(p, 1, 2), SubSeq(p, 3, Len(p))>>
    ELSE <<<<>>, p>>

\* os.path.isabs: the part after the drive starts with a separator.
IsAbs(p) ==
    LET rest == SplitDrive(p)[2]
    IN  Len(rest) >= 1 /\ rest[1] = Sep

\* The same conversion without the isabs test.
convert_any_path(path) == Replace(path, Colon)

\* Utilities.convert_to_directory_path; <<>> stands for None.
convert_to_directory_path(path) ==
    IF IsAbs(path) THEN Replace(path, Colon) ELSE <<>>

RECURSIVE LastSep(_, _)
LastSep(p, i) ==
    IF i = 0 THEN 0 ELSE IF p[i] = Sep THEN i ELSE LastSep(p, i - 1)

RECURSIVE RStripSep(_)
RStripSep(p) ==
    IF p # <<>> /\ p[Len(p)] = Sep THEN RStripSep(SubSeq(p, 1, Len(p) - 1)) ELSE p

\* os.path.split: <<head, tail>>.
Split(p) ==
    LET d == SplitDrive(p)[1]
        r == SplitDrive(p)[2]
        i == LastSep(r, Len(r))
        head == SubSeq(r, 1, i)
        tail == SubSeq(r, i + 1, Len(r))
        stripped == IF RStripSep(head) = <<>> THEN head ELSE RStripSep(head)
    IN  <<d \o stripped, tail>>


\* ------------------------------------------------------------ backup tree
\* A path under the backup root is a sequence of components (strings).
ROTATION_FILE == <<"rotation.json">>
backup_root == << <<"R">> >>
backup_name == <<"b">>
username == <<"u">>
computername == <<"c">>

Join(base, name) == Append(base, name)
Parent(path) == SubSeq(path, 1, Len(path) - 1)
IsUnder(path, top) == StartsWith(path, top)
Rebase(path, src, dst) == dst \o SubSeq(path, Len(src) + 1, Len(path))

\* Backup.__init__, lines 117-118.
backup_directory == Join(backup_root, backup_name)
backup_directory_full == Join(Join(backup_directory, username), computername)

VARIABLES
    pc,                       \* where the process is: idle, rotate, dirs, files, report, exit
    run_count,                \* runs started so far
    clock,                    \* wall clock, epoch seconds
    cfg,                      \* the configuration the running process read
    dirs,                     \* directories on disk under the backup root
    files,                    \* files on disk: path -> content
    rot,                      \* what _rotate did in this run
    idx,                      \* position in the list being iterated
    successfull_directories,
    successfull_files,
    invocations,              \* the mirror tool's invocations of this run
    returncode,               \* the last invocation's exit status
    out,                      \* how the run ended
    last_rotation             \* history: now_time_epoch of the last seed or archive, 0 before

vars == <<pc, run_count, clock, cfg, dirs, files, rot, idx,
          successfull_directories, successfull_files, invocations, returncode, out,
          last_rotation>>

\* os.path.exists
Exists(d, f, path) == path \in d \/ path \in DOMAIN f

\* shutil.rmtree(path, ignore_errors=True): <<dirs, files>> afterwards.
RmTree(d, f, path) ==
    << {x \in d : ~IsUnder(x, path)},
       [x \in {y \in DOMAIN f : ~IsUnder(y, path)} |-> f[x]] >>

\* cmd's `move /Y src dst` of a directory: a rename, refused when the source is
\* missing, when the target lies inside the source, or when the target's parent is
\* missing; an existing target directory receives the source inside it.
MoveTarget(d, src, dst) == IF dst \in d THEN Join(dst, src[Len(src)]) ELSE dst
MoveRefused(d, src, dst) ==
    \/ src \notin d
    \/ IsUnder(dst, src)
    \/ Parent(MoveTarget(d, src, dst)) \notin d
Move(d, f, src, dst) ==
    IF MoveRefused(d, src, dst) THEN <<d, f>>
    ELSE LET to == MoveTarget(d, src, dst)
             moved(x) == IF IsUnder(x, src) THEN Rebase(x, src, to) ELSE x
         IN  << {moved(x) : x \in d},
                [y \in {moved(x) : x \in DOMAIN f} |->
                    f[CHOOSE x \in DOMAIN f : moved(x) = y]] >>

\* open(path, "w") needs the directory the file goes into.
CanWrite(d, path) == Parent(path) \in d

\* RotationFile.save: the file's content after json.dump.
SavedContent(date, backups_list) == [date |-> date, list |-> backups_list]
WriteFile(f, path, content) ==
    [x \in DOMAIN f \cup {path} |-> IF x = path THEN content ELSE f[x]]


\* ---------------------------------------------------------------- _rotate
rotation_file_path == Join(backup_directory, ROTATION_FILE)

\* RotationFile.__init__: the fields before any load.
EmptyRotationFile == [date |-> 0, list |-> <<>>]

\* datetime.utcnow().replace(second=0, microsecond=0).timestamp()
now_time_epoch(clk) == (clk \div SecondsPerMinute) * SecondsPerMinute

\* (current_datetime - saved_datetime).days
days_elapsed(now, saved) == (now - saved) \div SecondsPerDay

\* The guard of line 238 without its dry-run half.
RotationEnabledOnly(c) == c.rotation_enabled

RotationActive(c) == ~(~c.rotation_enabled \/ c.dryrun)

oldest_backup_path(name) == Join(backup_root, name)
newest_backup_name(now) == backup_name \o <<"_">> \o IntToStr(now)
\* The archive beside the current generation instead of inside it.
newest_backup_path_in_root(name) == Join(backup_root, name)

newest_backup_path(name) == Join(backup_directory, name)

\* The while loop of lines 264-268 on the sorted list.
\* The loop condition with > for >=.
PruneGuardAbove(backups, max_saved) == Len(backups) > max_saved

PruneGuard(backups, max_saved) == Len(backups) >= max_saved
RECURSIVE PruneLoop(_, _, _, _, _)
PruneLoop(backups, d, f, max_saved, pruned) ==
    IF PruneGuard(backups, max_saved)
    THEN LET name == Head(backups)
             path == oldest_backup_path(name)
             found == Exists(d, f, path)
             after == IF found THEN RmTree(d, f, path) ELSE <<d, f>>
         IN  PruneLoop(Tail(backups), after[1], after[2], max_saved,
                       Append(pruned, [name |-> name, path |-> path, found |-> found]))
    ELSE [backups |-> backups, dirs |-> d, files |-> f, pruned |-> pruned]

NoRotation == [branch |-> "none", now |-> 0, loaded |-> EmptyRotationFile,
               pruned |-> <<>>, newest |-> <<>>, moved |-> FALSE, saved |-> FALSE]

\* The whole of Backup._rotate on disk <<d, f>> at wall clock clk: the disk
\* afterwards, what was done, and whether an exception leaves the method.
RotateOff(c, d, f) ==
    [dirs |-> d, files |-> f, raised |-> FALSE,
     rot |-> [NoRotation EXCEPT !.branch = "off"]]

RotateSeed(c, now, d, f) ==
    LET ok == CanWrite(d, rotation_file_path)
    IN  [dirs |-> d, raised |-> ~ok,
         files |-> IF ok THEN WriteFile(f, rotation_file_path, SavedContent(now, <<>>))
                   ELSE f,
         rot |-> [NoRotation EXCEPT !.branch = "seed", !.now = now, !.saved = ok]]

RotateFresh(c, now, d, f) ==
    LET loaded == f[rotation_file_path]
        ok == CanWrite(d, rotation_file_path)
    IN  [dirs |-> d, raised |-> ~ok,
         files |-> IF ok
                   THEN WriteFile(f, rotation_file_path, SavedContent(now, loaded.list))
                   ELSE f,
         rot |-> [NoRotation EXCEPT !.branch = "fresh", !.now = now,
                                    !.loaded = loaded, !.saved = ok]]

RotateDue(c, now, d, f) ==
    LET loaded == f[rotation_file_path]
        pr == PruneLoop(Sorted(loaded.list), d, f, c.rotation_max_saved, <<>>)
        newest == newest_backup_name(now)
        mv == Move(pr.dirs, pr.files, backup_directory, newest_backup_path(newest))
        backups == Append(pr.backups, newest)
        ok == CanWrite(mv[1], rotation_file_path)
    IN  [dirs |-> mv[1], raised |-> ~ok,
         files |-> IF ok
                   THEN WriteFile(mv[2], rotation_file_path, SavedContent(now, backups))
                   ELSE mv[2],
         rot |-> [branch |-> "due", now |-> now, loaded |-> loaded,
                  pruned |-> pr.pruned, newest |-> newest,
                  moved |-> backup_directory \notin mv[1], saved |-> ok]]

IsDue(c, now, saved) == ~(days_elapsed(now, saved) < c.rotation_interval)

_rotate(c, clk, d, f) ==
    LET now == now_time_epoch(clk)
    IN  IF ~RotationActive(c) THEN RotateOff(c, d, f)
        ELSE IF ~Exists(d, f, rotation_file_path) THEN RotateSeed(c, now, d, f)
        ELSE IF ~IsDue(c, now, f[rotation_file_path].date) THEN RotateFresh(c, now, d, f)
        ELSE RotateDue(c, now, d, f)


\* ---------------------------------------------------------- configuration
DirD == <<"C", ":", Sep, "d">>
DirE == <<"C", ":", Sep, "e">>
DirRel == <<"r">>
FileInD == <<"C", ":", Sep, "d", Sep, "f">>
FileBare == <<"f">>
FileRel == <<"r", Sep, "f">>
ExclDesc == <<"C", ":", Sep, "d", Sep, "x">>
ExclSibling == <<"C", ":", Sep, "d", "b", Sep, "x">>
ExclOther == <<"C", ":", Sep, "e", Sep, "y">>
ExclFileDesc == <<"C", ":", Sep, "d", Sep, "t">>
ExclFileSibling == <<"C", ":", Sep, "d", "t">>

DirPool == {DirD, DirE, DirRel}
FilePool == {FileInD, FileBare, FileRel}
ExcludePool == { << <<ExclDesc, ExclSibling, ExclOther>>, <<ExclFileDesc, ExclFileSibling>> >>,
                 << <<ExclOther>>, <<>> >> }

SeqsUpTo(S, n) == UNION {[1..k -> S] : k \in 0..n}

\* max(x, 1), lines 164 and 166.
Clamp(x) == IF x > 1 THEN x ELSE 1

\* Backup._configure_backup_script_from_file: the attributes a run works with.
Config(en, dr, nt, iv, ms, sd, sf, xd, xf) ==
    [rotation_enabled |-> en, dryrun |-> dr, notification |-> nt,
     rotation_interval |-> Clamp(iv), rotation_max_saved |-> Clamp(ms),
     source_directories |-> sd, source_files |-> sf,
     exclude_directories |-> xd, exclude_files |-> xf]

\* Configuration files of Spec: every rotation setting, one directory and one file.
RotationConfigs ==
    {Config(en, dr, FALSE, iv, ms, <<DirD>>, <<FileInD>>, <<ExclDesc>>, <<>>) :
        en \in BOOLEAN, dr \in BOOLEAN, iv \in 0..2, ms \in 0..2}

\* Configuration files of SpecOrch: every source list, exclusion list and flag.
OrchConfigs ==
    {Config(en, dr, nt, 1, 1, sd, sf, x[1], x[2]) :
        en \in BOOLEAN, dr \in BOOLEAN, nt \in BOOLEAN,
        sd \in SeqsUpTo(DirPool, MaxDirs), sf \in SeqsUpTo(FilePool, MaxFiles),
        x \in ExcludePool}

\* Configuration files of SpecMirror: two directories and a file, mirrored for real
\* or listed only.
MirrorConfigs ==
    {Config(FALSE, dr, FALSE, 1, 1, <<DirD, DirE>>, <<FileInD>>, <<ExclDesc>>, <<ExclFileDesc>>) :
        dr \in BOOLEAN}

\* Configuration files of SpecGate: rotation every two days, enabled or not, never
\* a dry run.
GateConfigs ==
    {Config(en, FALSE, FALSE, 2, ms, <<DirD>>, <<FileInD>>, <<ExclDesc>>, <<>>) :
        en \in BOOLEAN, ms \in 1..2}

\* Time between two runs.
Advances == {SecondsPerDay \div 2, SecondsPerDay, 2 * SecondsPerDay}

\* The mirror tool's exit statuses.
MaxExit == 16
ExitCodes == 0..MaxExit
FewExitCodes == {0, FailureThreshold}

NotifierOutcomes == {"shown", "icon_missing", "import_error", "api_error"}

\* ----------------------------------------------------------- _backup_object
\* Lines 228-234: the result for process.returncode.
\* The comparison with > for >=.
backup_object_result_above(rc) == ~(rc > FailureThreshold)

backup_object_result(rc) == ~(rc >= FailureThreshold)

\* Lines 210-217: the /XD and /XF arguments on the command line.
robocopy_excludes(filename, excludes) == IF filename = <<>> THEN excludes ELSE <<>>

\* Lines 300-301: the exclusions backup() passes for a source directory.
scoped_excludes(excludes, source_dir) ==
    SelectSeq(excludes, LAMBDA path : StartsWith(path, source_dir))

\* What the mirror tool leaves on disk: a real (not /L) run that did not fail has
\* created the destination tree.
MirrorDisk(d, c, rc) ==
    IF ~c.dryrun /\ backup_object_result(rc)
    THEN d \cup {backup_root, backup_directory, Join(backup_directory, username),
                 backup_directory_full}
    ELSE d

Invocation(c, source_dir, source_path, filename, xd, xf, rc) ==
    [source_dir |-> source_dir, filename |-> filename,
     destination_dir |-> <<backup_directory_full, source_path>>,
     exclude_directories |-> robocopy_excludes(filename, xd),
     exclude_files |-> robocopy_excludes(filename, xf),
     list_only |-> c.dryrun,
     ok |-> backup_object_result(rc)]

\* ----------------------------------------------------------------- actions
NoOutcome == [result |-> "none", raised |-> FALSE, notify |-> "none", exit_code |-> -1]

AfterDirs(c) == IF Len(c.source_files) > 0 THEN "files" ELSE "report"
AfterRotate(c) == IF Len(c.source_directories) > 0 THEN "dirs" ELSE AfterDirs(c)

Init ==
    /\ pc = "idle"
    /\ run_count = 0
    /\ clock = StartClock
    /\ cfg = Config(FALSE, TRUE, FALSE, 1, 1, <<>>, <<>>, <<>>, <<>>)
    /\ dirs = {backup_root}
    /\ files = <<>>
    /\ rot = NoRotation
    /\ idx = 1
    /\ successfull_directories = 0
    /\ successfull_files = 0
    /\ invocations = <<>>
    /\ returncode = 0
    /\ out = NoOutcome
    /\ last_rotation = 0

\* A new process: Backup.__init__ reads the configuration file; backup() starts.
StartRun(configs, limit) ==
    /\ pc = "idle"
    /\ run_count < limit
    /\ \E c \in configs, dt \in Advances :
        /\ cfg' = c
        /\ clock' = clock + dt
    /\ run_count' = run_count + 1
    /\ pc' = "rotate"
    /\ rot' = NoRotation
    /\ idx' = 1
    /\ successfull_directories' = 0
    /\ successfull_files' = 0
    /\ invocations' = <<>>
    /\ returncode' = 0
    /\ out' = NoOutcome
    /\ UNCHANGED <<dirs, files, last_rotation>>

\* Line 288: self._rotate(); an exception leaves backup().
Rotate ==
    /\ pc = "rotate"
    /\ LET r == _rotate(cfg, clock, dirs, files)
       IN  /\ dirs' = r.dirs
           /\ files' = r.files
           /\ rot' = r.rot
           /\ last_rotation' = IF r.rot.branch \in {"seed", "due"} /\ r.rot.saved
                                THEN r.rot.now ELSE last_rotation
           /\ out' = [out EXCEPT !.raised = r.raised]
           /\ pc' = IF r.raised THEN "exit" ELSE AfterRotate(cfg)
    /\ UNCHANGED <<run_count, clock, cfg, idx, successfull_directories,
                   successfull_files, invocations, returncode>>

\* One iteration of the loop of lines 292-302.
BackupDir(codes) ==
    /\ pc = "dirs"
    /\ LET source_dir == cfg.source_directories[idx]
           source_path == convert_to_directory_path(source_dir)
           last == idx = Len(cfg.source_directories)
       IN  /\ IF source_path = <<>>
              THEN UNCHANGED <<dirs, invocations, returncode, successfull_directories>>
              ELSE \E rc \in codes :
                    /\ returncode' = rc
                    /\ invocations' = Append(invocations,
                          Invocation(cfg, source_dir, source_path, <<>>,
                                     scoped_excludes(cfg.exclude_directories, source_dir),
                                     scoped_excludes(cfg.exclude_files, source_dir), rc))
                    /\ dirs' = MirrorDisk(dirs, cfg, rc)
                    /\ successfull_directories' =
                          IF backup_object_result(rc) THEN successfull_directories + 1
                          ELSE successfull_directories
           /\ idx' = IF last THEN 1 ELSE idx + 1
           /\ pc' = IF last THEN AfterDirs(cfg) ELSE "dirs"
    /\ UNCHANGED <<run_count, clock, cfg, files, rot, successfull_files, out,
                   last_rotation>>

\* One iteration of the loop of lines 306-315.
BackupFile(codes) ==
    /\ pc = "files"
    /\ LET source_file == cfg.source_files[idx]
           source_dir == Split(source_file)[1]
           filename == Split(source_file)[2]
           source_path == convert_to_directory_path(source_dir)
           last == idx = Len(cfg.source_files)
       IN  /\ IF source_path = <<>>
              THEN UNCHANGED <<dirs, invocations, returncode, successfull_files>>
              ELSE \E rc \in codes :
                    /\ returncode' = rc
                    /\ invocations' = Append(invocations,
                          Invocation(cfg, source_dir, source_path, filename, <<>>, <<>>, rc))
                    /\ dirs' = MirrorDisk(dirs, cfg, rc)
                    /\ successfull_files' =
                          IF backup_object_result(rc) THEN successfull_files + 1
                          ELSE successfull_files
           /\ idx' = IF last THEN 1 ELSE idx + 1
           /\ pc' = IF last THEN "report" ELSE "files"
    /\ UNCHANGED <<run_count, clock, cfg, files, rot, successfull_directories, out,
                   last_rotation>>

\* Backup._notify with WindowsBalloonTip.__init__: a missing icon falls back to
\* the stock icon (notification.py 34-37); any other failure raises.
notify(c, outcome) ==
    IF ~c.notification THEN "off"
    ELSE IF outcome = "shown" THEN "shown"
    ELSE IF outcome = "icon_missing" THEN "fallback_icon"
    ELSE "failed"

\* Line 317: the run failed when a counter differs from its list's length.
backup_failed(c, ok_dirs, ok_files) ==
    ok_dirs # Len(c.source_directories) \/ ok_files # Len(c.source_files)

\* Lines 317-326: the aggregate, the notification, the return value.
Report ==
    /\ pc = "report"
    /\ \E outcome \in NotifierOutcomes :
        LET n == notify(cfg, outcome)
            failed == backup_failed(cfg, successfull_directories, successfull_files)
        IN  out' = [out EXCEPT !.notify = n,
                               !.raised = (n = "failed"),
                               !.result = IF n = "failed" THEN "none"
                                          ELSE IF failed THEN "false" ELSE "true"]
    /\ pc' = "exit"
    /\ UNCHANGED <<run_count, clock, cfg, dirs, files, rot, idx, successfull_directories,
                   successfull_files, invocations, returncode, last_rotation>>

\* Lines 361-368: sys.exit(0 if bck.backup() else 1), 1 on any exception.
exit_status(o) == IF o.raised THEN 1 ELSE IF o.result = "true" THEN 0 ELSE 1

Exit ==
    /\ pc = "exit"
    /\ out' = [out EXCEPT !.exit_code = exit_status(out)]
    /\ pc' = "idle"
    /\ UNCHANGED <<run_count, clock, cfg, dirs, files, rot, idx, successfull_directories,
                   successfull_files, invocations, returncode, last_rotation>>

\* Runs of a machine whose rotation settings change between runs.
Next ==
    \/ StartRun(RotationConfigs, MaxRuns)
    \/ Rotate
    \/ BackupDir(FewExitCodes)
    \/ BackupFile(FewExitCodes)
    \/ Report
    \/ Exit

Spec == Init /\ [][Next]_vars

\* One run over every source list, exclusion list and flag.
NextOrch ==
    \/ StartRun(OrchConfigs, 1)
    \/ Rotate
    \/ BackupDir(FewExitCodes)
    \/ BackupFile(FewExitCodes)
    \/ Report
    \/ Exit

SpecOrch == Init /\ [][NextOrch]_vars

\* One run of the mirror tool over every exit status.
NextMirror ==
    \/ StartRun(MirrorConfigs, 1)
    \/ Rotate
    \/ BackupDir(ExitCodes)
    \/ BackupFile(ExitCodes)
    \/ Report
    \/ Exit

SpecMirror == Init /\ [][NextMirror]_vars


\* Runs of a machine whose rotation interval stays at two days.
NextGate ==
    \/ StartRun(GateConfigs, MaxRuns)
    \/ Rotate
    \/ BackupDir(FewExitCodes)
    \/ BackupFile(FewExitCodes)
    \/ Report
    \/ Exit

SpecGate == Init /\ [][NextGate]_vars

\* ------------------------------------------------------------ properties
Range(seq) == {seq[k] : k \in DOMAIN seq}
RunEnded == pc = "idle" /\ run_count > 0
HasRotationFile == rotation_file_path \in DOMAIN files
PersistedList == files[rotation_file_path].list
PersistedDate == files[rotation_file_path].date

\* The lexically smallest string of a non-empty set.
Smallest(S) == CHOOSE x \in S : \A y \in S : ~StrLess(y, x)

\* C1: a due rotation that loaded a list of exactly max_saved names drops exactly
\* one name, the lexically smallest, leaves no directory at the path it pruned, and
\* appends the new name {backup_name}_{now}: the persisted list has max_saved
\* entries again and holds the new name.
C1_RotateAtCapDropsOldest ==
    (rot.branch = "due" /\ Len(rot.loaded.list) = cfg.rotation_max_saved) =>
        LET old == rot.loaded.list
            oldest == Smallest(Range(old))
        IN  /\ HasRotationFile
            /\ Len(PersistedList) = cfg.rotation_max_saved
            /\ PersistedList[Len(PersistedList)] = backup_name \o <<"_">> \o IntToStr(rot.now)
            /\ Len(rot.pruned) = 1
            /\ rot.pruned[1].name = oldest
            /\ Join(backup_root, oldest) \notin dirs
            /\ Range(PersistedList) = (Range(old) \ {oldest}) \cup {rot.newest}
            /\ \A k \in 1..(Len(PersistedList) - 2) :
                    StrLess(PersistedList[k], PersistedList[k + 1])

C1_Witness ==
    /\ rot.branch = "due"
    /\ cfg.rotation_max_saved = 2
    /\ Len(rot.loaded.list) = 2
    /\ Len(rot.pruned) = 1
    /\ HasRotationFile
    /\ Len(PersistedList) = 2
    /\ PersistedList[2] = rot.newest

\* C2: every archive a rotation records is a directory at the path pruning looks
\* in, so that pruning can find and delete it once it is the oldest beyond the cap.
C2_ArchiveWherePruningLooks ==
    (rot.branch = "due" /\ rot.saved) => oldest_backup_path(rot.newest) \in dirs

\* C3: with rotation disabled or dry-run on, _rotate leaves every directory and
\* file, the rotation-state file included, exactly as it found them.
C3_InactiveRotateChangesNothing ==
    [][(pc = "rotate" /\ (~cfg.rotation_enabled \/ cfg.dryrun))
        => (dirs' = dirs /\ files' = files)]_vars

C3_Witness ==
    /\ rot.branch = "off"
    /\ cfg.rotation_enabled
    /\ cfg.dryrun
    /\ HasRotationFile
    /\ Len(PersistedList) >= 1
    /\ days_elapsed(now_time_epoch(clock), PersistedDate) >= cfg.rotation_interval

\* C4: a run that finds no rotation-state file (rotation enabled, dry-run off)
\* creates it with date = the minute-truncated current time and an empty list, and
\* moves or deletes nothing.
C4_FirstRunSeedsFile ==
    rot.branch = "seed" =>
        /\ HasRotationFile
        /\ files[rotation_file_path] = [date |-> rot.now, list |-> <<>>]
        /\ ~rot.moved
        /\ rot.pruned = <<>>


\* The invocations of this run that mirrored a whole directory / a single file.
DirInvocations == {k \in DOMAIN invocations : invocations[k].filename = <<>>}
FileInvocations == {k \in DOMAIN invocations : invocations[k].filename # <<>>}
AllMirrored ==
    /\ Cardinality({k \in DirInvocations : invocations[k].ok})
          = Len(cfg.source_directories)
    /\ Cardinality({k \in FileInvocations : invocations[k].ok})
          = Len(cfg.source_files)

\* The source directories the mirror tool is due for, in the order of the lists.
AbsoluteSources ==
    SelectSeq(cfg.source_directories, IsAbs)
      \o SelectSeq([k \in DOMAIN cfg.source_files |-> Split(cfg.source_files[k])[1]], IsAbs)
HasRelativeSource ==
    \/ \E k \in DOMAIN cfg.source_directories : ~IsAbs(cfg.source_directories[k])
    \/ \E k \in DOMAIN cfg.source_files : ~IsAbs(Split(cfg.source_files[k])[1])

\* C5: a run attempts every configured item and exits with 0 exactly when every
\* configured directory and every configured file was mirrored successfully.
C5_ExitZeroIffAllMirrored ==
    RunEnded =>
        /\ Len(invocations) = Len(AbsoluteSources)
        /\ (out.exit_code = 0) <=> AllMirrored

\* C6: the mirror tool is never invoked for a source that is not an absolute path;
\* the items after it are still processed, in order; and a run with such a
\* source ends in failure.
C6_RelativeSourcesSkipped ==
    /\ \A k \in DOMAIN invocations : IsAbs(invocations[k].source_dir)
    /\ pc = "report" =>
          [k \in DOMAIN invocations |-> invocations[k].source_dir] = AbsoluteSources
    /\ (RunEnded /\ HasRelativeSource) => (out.exit_code = 1 /\ out.result # "true")

C6_Witness ==
    /\ RunEnded
    /\ cfg.source_directories = <<DirRel, DirD>>
    /\ cfg.source_files = <<FileBare>>
    /\ Len(invocations) = 1
    /\ invocations[1].source_dir = DirD
    /\ invocations[1].ok
    /\ out.result = "false"
    /\ out.exit_code = 1

\* C7: an exit status of 0 to 7 makes _backup_object succeed, one of 8 or more
\* makes it fail.
C7_ExitStatusBoundaryAtEight ==
    invocations # <<>> =>
        /\ returncode \in 0..7 => invocations[Len(invocations)].ok
        /\ returncode >= 8 => ~invocations[Len(invocations)].ok

C7_Witness ==
    /\ Len(invocations) = 2
    /\ ~cfg.dryrun
    /\ ~invocations[1].ok
    /\ returncode = 7
    /\ invocations[2].ok
    /\ successfull_directories = 1

\* E lies below S in the path hierarchy.
IsDescendant(E, S) == StartsWith(E, IF S[Len(S)] = Sep THEN S ELSE Append(S, Sep))

\* C8: every exclusion passed to the mirror of a source directory is a descendant
\* of that directory.
C8_ExcludesAreDescendants ==
    \A k \in DOMAIN invocations :
        /\ \A j \in DOMAIN invocations[k].exclude_directories :
              IsDescendant(invocations[k].exclude_directories[j], invocations[k].source_dir)
        /\ \A j \in DOMAIN invocations[k].exclude_files :
              IsDescendant(invocations[k].exclude_files[j], invocations[k].source_dir)

\* C9: a run whose notifier failed ends as it would with notification disabled:
\* no exception leaves backup(), and the exit code is 0 exactly when nothing failed.
C9_NotifierFailureHarmless ==
    (RunEnded /\ out.notify = "failed") =>
        /\ ~out.raised
        /\ out.exit_code =
              IF backup_failed(cfg, successfull_directories, successfull_files) THEN 1 ELSE 0

C11_GatedByLastRotation ==
    rot.branch = "fresh" =>
        days_elapsed(rot.now, last_rotation) < cfg.rotation_interval

====
